---- MODULE Spec2Model ----
(***************************************************************************)
(* gcdeck: the slide-deck viewer of giocanvas (src/gcdeck/gcdeck.go).      *)
(*                                                                         *)
(* The module models                                                       *)
(*   - the navigation state (slidenumber, gridstate, pressed) and the      *)
(*     frame loop of slidedeck with the event handler kbpointer   (Spec)   *)
(*   - setop, the opacity to alpha conversion, in IEEE-754 binary64        *)
(*     arithmetic                                              (SpecSetop) *)
(*   - setpagesize and pagedim                               (SpecPagedim) *)
(*   - dolist                                                 (SpecDolist) *)
(*   - showslide's sequence of drawing calls               (SpecShowslide) *)
(***************************************************************************)
EXTENDS Integers, Sequences, FiniteSets, TLC

VARIABLES
    pc,           \* position of the process: "start", "loop", "quit", "destroyed", "exit1", "panic"
    deckslides,   \* len(deck.Slide) of the deck file named on the command line
    loaderr,      \* whether readDeck returns an error
    initpage,     \* slidedeck's initpage: the --page flag, reset to 1 when out of range
    nslides,      \* slidedeck's local nslides
    slidenumber,  \* global slidenumber
    gridstate,    \* global gridstate
    pressed,      \* global pressed
    rendered,     \* index of the slide drawn by the last frame's showslide, NoSlide if none
    fgread,       \* index of deck.Slide read for the grid overlay in the last frame, NoSlide if none
    single,       \* kind of the event drained by the last frame when it drained exactly one, else "none" or "many"
    ideal,        \* index of the reference circular navigator fed the same events
    opv,          \* setop: argument v
    alpha,        \* setop: result
    token,        \* pagedim: argument s
    dim,          \* pagedim: result
    list,         \* dolist: argument list
    lcolor,       \* dolist: argument color
    ltype,        \* dolist: argument ltype
    drawn,        \* dolist: drawing calls emitted
    slide,        \* showslide: d.Slide[n]
    calls         \* showslide: drawing calls emitted

navvars == <<pc, deckslides, loaderr, initpage, nslides, slidenumber, gridstate,
             pressed, rendered, fgread, single, ideal>>
opvars == <<opv, alpha>>
pagevars == <<token, dim>>
listvars == <<list, lcolor, ltype, drawn>>
slidevars == <<slide, calls>>
vars == <<navvars, opvars, pagevars, listvars, slidevars>>

(***************************************************************************)
(* Bounds of the model.                                                    *)
(***************************************************************************)
MaxSlides == 2     \* decks of 0..MaxSlides slides
MaxEvents == 2     \* events drained by one frame
PageSlack == 2     \* --page values from -PageSlack+1 to MaxSlides+PageSlack

NoSlide == -100    \* "no index": never a value of slidenumber within the bounds

SeqsUpTo(S, n) == UNION {[1..k -> S] : k \in 0..n}

(***************************************************************************)
(* Input events (gioui.org/io/key and gioui.org/io/pointer).               *)
(* A key event carries Name, Modifiers and State; a pointer event carries  *)
(* Buttons (in Name) and Type (in State).                                  *)
(***************************************************************************)
KeyEv(name, mods, state) ==
    [src |-> "key", Name |-> name, Modifiers |-> mods, State |-> state]
PointerEv(buttons, type) ==
    [src |-> "pointer", Name |-> buttons, Modifiers |-> "", State |-> type]

\* the events the host delivers in the model
InputEvents ==
    { KeyEv("F", "", "Press"), KeyEv("F", "Shift", "Press"),
      KeyEv("A", "Ctrl", "Press"), KeyEv("$", "", "Press"), KeyEv("G", "", "Press"),
      KeyEv("Space", "Shift", "Press"), KeyEv("Escape", "", "Press"),
      PointerEv("Primary", "Press"), PointerEv("Tertiary", "Move") }

(***************************************************************************)
(* kbpointer: the handler state is [sn, gs, pr, exit]: slidenumber,        *)
(* gridstate, pressed, and whether os.Exit was called.                     *)
(***************************************************************************)
ModOK(k) == k.Modifiers = "" \/ k.Modifiers = "Ctrl"

\* the switch on k.Name of a key.Press event, lines 550-594
KeyPress(st, k, ns) ==
    CASE k.Name \in {"A", "1"} ->
            IF ModOK(k) THEN [st EXCEPT !.sn = 0] ELSE st
      [] k.Name = "E" ->
            IF ModOK(k) THEN [st EXCEPT !.sn = ns] ELSE st
      [] k.Name \in {"B", "P"} ->
            IF ModOK(k) THEN [st EXCEPT !.sn = @ - 1] ELSE st
      [] k.Name \in {"F", "N"} ->
            IF ModOK(k) THEN [st EXCEPT !.sn = @ + 1] ELSE st
      [] k.Name \in {"^", "Home"} -> [st EXCEPT !.sn = 0]
      [] k.Name \in {"$", "End"} -> [st EXCEPT !.sn = ns]
      [] k.Name = "G" -> [st EXCEPT !.gs = ~@]
      [] k.Name \in {"Space", "Enter"} ->
            IF k.Modifiers = "" THEN [st EXCEPT !.sn = @ + 1]
                                ELSE [st EXCEPT !.sn = @ - 1]
      [] k.Name \in {"RightArrow", "PageDown", "DownArrow", "K"} ->
            [st EXCEPT !.sn = @ + 1]
      [] k.Name \in {"LeftArrow", "PageUp", "UpArrow", "J"} ->
            [st EXCEPT !.sn = @ - 1]
      [] k.Name \in {"Escape", "Q"} -> [st EXCEPT !.exit = TRUE]
      [] OTHER -> st

\* the switch on p.Buttons of a pointer.Press event, lines 599-609
PointerPress(st, p) ==
    LET moved == CASE p.Name = "Primary" -> [st EXCEPT !.sn = @ + 1]
                   [] p.Name = "Secondary" -> [st EXCEPT !.sn = @ - 1]
                   [] p.Name = "Tertiary" -> [st EXCEPT !.sn = 0]
                   [] OTHER -> st
    IN [moved EXCEPT !.pr = TRUE]

\* the body of the loop over q.Events(pressed), lines 547-610
kbevent(st, ev, ns) ==
    CASE ev.src = "key" /\ ev.State = "Press" -> KeyPress(st, ev, ns)
      [] ev.src = "pointer" /\ ev.State = "Press" -> PointerPress(st, ev)
      [] OTHER -> st

\* kbpointer(q, ns): the events of the queue in delivery order; os.Exit ends the process
RECURSIVE kbpointer(_, _, _)
kbpointer(st, evs, ns) ==
    IF evs = <<>> \/ st.exit THEN st
    ELSE kbpointer(kbevent(st, Head(evs), ns), Tail(evs), ns)

(***************************************************************************)
(* slidedeck                                                               *)
(***************************************************************************)
\* a start page check that is off by one at the last page
StartPageOffByOne(p, ns) == IF p > ns \/ p < 1 THEN 1 ELSE p

\* lines 624-626: the local initpage for --page p and nslides = ns
StartPage(p, ns) == IF p > ns + 1 \/ p < 1 THEN 1 ELSE p

\* a wrap that forgets the indexes below 0
WrapIndexUpperOnly(sn, ns) == IF sn > ns THEN 0 ELSE sn

\* a wrap that clamps to the nearest end instead of going round
WrapIndexClamp(sn, ns) ==
    LET a == IF sn > ns THEN ns ELSE sn
    IN IF a < 0 THEN 0 ELSE a

\* lines 639-644: the wrap at the head of a frame
WrapIndex(sn, ns) ==
    LET a == IF sn > ns THEN 0 ELSE sn
    IN IF a < 0 THEN ns ELSE a

\* showslide's guard, lines 301-303: the slide index it draws, NoSlide if it returns at once
ShownSlide(n, len) == IF n < 0 \/ n > len - 1 THEN NoSlide ELSE n

\* the state a frame hands to kbpointer, line 649
FrameInput(sn, gs, pr) == [sn |-> sn, gs |-> gs, pr |-> pr, exit |-> FALSE]

(***************************************************************************)
(* The reference navigator of the specification: an index in 0..N-1 that   *)
(* wraps after every single event.                                         *)
(***************************************************************************)
EventKind(ev) ==
    CASE ev.src = "key" /\ ev.State = "Press" ->
            (CASE ev.Name \in {"A", "1"} /\ ModOK(ev) -> "first"
               [] ev.Name = "E" /\ ModOK(ev) -> "last"
               [] ev.Name \in {"B", "P"} /\ ModOK(ev) -> "back"
               [] ev.Name \in {"F", "N"} /\ ModOK(ev) -> "fwd"
               [] ev.Name \in {"^", "Home"} -> "first"
               [] ev.Name \in {"$", "End"} -> "last"
               [] ev.Name = "G" -> "grid"
               [] ev.Name \in {"Space", "Enter"} /\ ev.Modifiers = "" -> "fwd"
               [] ev.Name \in {"Space", "Enter"} /\ ev.Modifiers = "Shift" -> "back"
               [] ev.Name \in {"RightArrow", "PageDown", "DownArrow", "K"} -> "fwd"
               [] ev.Name \in {"LeftArrow", "PageUp", "UpArrow", "J"} -> "back"
               [] ev.Name \in {"Escape", "Q"} -> "quit"
               [] OTHER -> "none")
      [] ev.src = "pointer" /\ ev.State = "Press" ->
            (CASE ev.Name = "Primary" -> "fwd"
               [] ev.Name = "Secondary" -> "back"
               [] ev.Name = "Tertiary" -> "first"
               [] OTHER -> "none")
      [] OTHER -> "none"

IdealStep(i, ev, n) ==
    CASE EventKind(ev) = "fwd" -> (i + 1) % n
      [] EventKind(ev) = "back" -> (i + n - 1) % n
      [] EventKind(ev) = "first" -> 0
      [] EventKind(ev) = "last" -> n - 1
      [] OTHER -> i

RECURSIVE IdealNav(_, _, _)
IdealNav(i, evs, n) ==
    IF evs = <<>> \/ n < 1 \/ EventKind(Head(evs)) = "quit" THEN i
    ELSE IdealNav(IdealStep(i, Head(evs), n), Tail(evs), n)

IdealStart(p, n) == IF p >= 1 /\ p <= n THEN p - 1 ELSE 0

(***************************************************************************)
(* Actions of the viewer                                                   *)
(***************************************************************************)
PageFlags == (1 - PageSlack)..(MaxSlides + PageSlack)

NavIdle ==
    /\ pc = "idle" /\ deckslides = 0 /\ loaderr = FALSE /\ initpage = 1
    /\ nslides = 0 /\ slidenumber = 0 /\ gridstate = FALSE /\ pressed = FALSE
    /\ rendered = NoSlide /\ fgread = NoSlide /\ single = "none" /\ ideal = 0
OpIdle == opv = 0 /\ alpha = -1
PageIdle == token = <<>> /\ dim = <<>>
ListIdle == list = <<>> /\ lcolor = "" /\ ltype = "" /\ drawn = <<>>
SlideIdle == slide = <<>> /\ calls = <<>>

\* main, lines 518-537: the flags are parsed and slidedeck is started
Init ==
    /\ pc = "start"
    /\ deckslides \in 0..MaxSlides
    /\ loaderr \in BOOLEAN
    /\ initpage \in PageFlags
    /\ nslides = 0 /\ slidenumber = 0 /\ gridstate = FALSE /\ pressed = FALSE
    /\ rendered = NoSlide /\ fgread = NoSlide /\ single = "none" /\ ideal = 0
    /\ OpIdle /\ PageIdle /\ ListIdle /\ SlideIdle

\* slidedeck, lines 616-629: load the deck, set the initial values, open the window
Startup ==
    /\ pc = "start"
    /\ IF loaderr
       THEN /\ pc' = "exit1"
            /\ UNCHANGED <<initpage, nslides, slidenumber, gridstate, ideal>>
       ELSE /\ pc' = "loop"
            /\ nslides' = deckslides - 1
            /\ initpage' = StartPage(initpage, deckslides - 1)
            /\ slidenumber' = StartPage(initpage, deckslides - 1) - 1
            /\ gridstate' = FALSE
            /\ ideal' = IdealStart(initpage, deckslides)
    /\ UNCHANGED <<deckslides, loaderr, pressed, rendered, fgread, single>>
    /\ UNCHANGED <<opvars, pagevars, listvars, slidevars>>

\* slidedeck, lines 633-634: system.DestroyEvent
Destroy ==
    /\ pc = "loop"
    /\ pc' = "destroyed"
    /\ UNCHANGED <<deckslides, loaderr, initpage, nslides, slidenumber, gridstate,
                   pressed, rendered, fgread, single, ideal>>
    /\ UNCHANGED <<opvars, pagevars, listvars, slidevars>>

\* a frame that drains the event queue before it wraps and draws
FrameEventsFirst(evs) ==
    /\ pc = "loop"
    /\ \E st \in {kbpointer(FrameInput(slidenumber, gridstate, pressed), evs, nslides)} :
       \E sn \in {WrapIndex(st.sn, nslides)} :
          /\ rendered' = ShownSlide(sn, deckslides)
          /\ fgread' = IF st.gs THEN sn ELSE NoSlide
          /\ pc' = IF st.exit THEN "quit"
                   ELSE IF st.gs /\ (sn < 0 \/ sn > deckslides - 1) THEN "panic" ELSE "loop"
          /\ slidenumber' = sn
          /\ gridstate' = st.gs
          /\ pressed' = st.pr
          /\ single' = CASE Len(evs) = 0 -> "none"
                         [] Len(evs) = 1 -> EventKind(evs[1])
                         [] OTHER -> "many"
          /\ ideal' = IdealNav(ideal, evs, deckslides)
    /\ UNCHANGED <<deckslides, loaderr, initpage, nslides>>
    /\ UNCHANGED <<opvars, pagevars, listvars, slidevars>>

\* slidedeck, lines 635-650: system.FrameEvent with evs in the event queue
Frame(evs) ==
    /\ pc = "loop"
    /\ \E sn \in {WrapIndex(slidenumber, nslides)} :
          /\ rendered' = ShownSlide(sn, deckslides)
          /\ fgread' = IF gridstate THEN sn ELSE NoSlide
          /\ IF gridstate /\ (sn < 0 \/ sn > deckslides - 1)
             THEN \* deck.Slide[slidenumber] panics: index out of range
                  /\ pc' = "panic"
                  /\ slidenumber' = sn
                  /\ UNCHANGED <<gridstate, pressed, single, ideal>>
             ELSE \E st \in {kbpointer(FrameInput(sn, gridstate, pressed), evs, nslides)} :
                  /\ pc' = IF st.exit THEN "quit" ELSE "loop"
                  /\ slidenumber' = st.sn
                  /\ gridstate' = st.gs
                  /\ pressed' = st.pr
                  /\ single' = CASE Len(evs) = 0 -> "none"
                                 [] Len(evs) = 1 -> EventKind(evs[1])
                                 [] OTHER -> "many"
                  /\ ideal' = IdealNav(ideal, evs, deckslides)
    /\ UNCHANGED <<deckslides, loaderr, initpage, nslides>>
    /\ UNCHANGED <<opvars, pagevars, listvars, slidevars>>

Next ==
    \/ Startup
    \/ Destroy
    \/ \E evs \in SeqsUpTo(InputEvents, MaxEvents) : Frame(evs)

Spec == Init /\ [][Next]_vars

(***************************************************************************)
(* setop, lines 126-132, in IEEE-754 binary64 arithmetic.                  *)
(* A positive float is [m, e]: m is the significand, Precision bits with   *)
(* the most significant first and m[1] = 1; e is the exponent of m[1].     *)
(***************************************************************************)
Precision == 53    \* significand bits of float64
Hundred == 100     \* the divisor 100.0
MaxAlpha == 255    \* the factor 255.0 and the opaque alpha
FracLen == Precision + 11   \* fraction bits of a quotient computed before rounding

OpNeg == 3         \* opacities from -OpNeg
OpOver == 1        \* opacities up to Hundred + OpOver

\* the k-bit binary representation of n
IntBits(n, k) == [i \in 1..k |-> (n \div 2^(k - i)) % 2]

RECURSIVE BitsVal(_)
\* the value of a short bit sequence
BitsVal(b) == IF b = <<>> THEN 0 ELSE 2 * BitsVal(SubSeq(b, 1, Len(b) - 1)) + b[Len(b)]

RECURSIVE Rem16(_, _, _)
\* (r * 16^j) mod d
Rem16(r, d, j) == IF j = 0 THEN r % d ELSE (16 * Rem16(r, d, j - 1)) % d

\* bit i of the binary expansion of r/d, 0 <= r < d: the bits come four at a time,
\* as the quotient of 16 * (r * 16^j mod d) by d
FracBit(r, d, i) ==
    LET nibble == (16 * Rem16(r, d, (i - 1) \div 4)) \div d
    IN (nibble \div 2^(3 - ((i - 1) % 4))) % 2

\* the first k bits of the binary expansion of r/d
FracBits(r, d, k) == [i \in 1..k |-> FracBit(r, d, i)]

\* the remainder left after k bits of r/d
FracRem(r, d, k) == (2^(k % 4) * Rem16(r, d, k \div 4)) % d

\* a + 1 on a bit sequence that is not all ones
IncBits(a) ==
    LET z == CHOOSE i \in 1..Len(a) : a[i] = 0 /\ \A j \in (i + 1)..Len(a) : a[j] = 1
    IN [i \in 1..Len(a) |-> IF i < z THEN a[i] ELSE IF i = z THEN 1 ELSE 0]

\* the 12-bit limbs of a bit sequence, least significant first
Limbs(b) ==
    LET n == (Len(b) + 11) \div 12
        padded == [i \in 1..(12 * n - Len(b)) |-> 0] \o b
    IN [j \in 1..n |-> BitsVal(SubSeq(padded, 12 * (n - j) + 1, 12 * (n - j + 1)))]

RECURSIVE MulLimbs(_, _, _)
\* limbs * k + carry, one limb longer
MulLimbs(limbs, k, carry) ==
    IF limbs = <<>> THEN <<carry>>
    ELSE <<(Head(limbs) * k + carry) % 4096>>
         \o MulLimbs(Tail(limbs), k, (Head(limbs) * k + carry) \div 4096)

\* the bits of a limb sequence, most significant first
LimbBits(ls) ==
    [i \in 1..(12 * Len(ls)) |->
        (ls[Len(ls) - ((i - 1) \div 12)] \div 2^(11 - ((i - 1) % 12))) % 2]

Zeros(k) == [i \in 1..k |-> 0]
AnyOne(b) == \E i \in 1..Len(b) : b[i] = 1
LeadingZeros(b) == IF AnyOne(b) THEN (CHOOSE i \in 1..Len(b) : b[i] = 1 /\ \A j \in 1..(i - 1) : b[j] = 0) - 1
                   ELSE Len(b)

\* round to nearest, ties to even
RoundNearestEven(m, guard, sticky) == guard = 1 /\ (sticky \/ m[Len(m)] = 1)

\* the float of prec significand bits nearest to a nonzero exact value: the first
\* bit of bits weighs 2^exp, and sticky tells whether a nonzero remainder follows
RoundTo(bits, exp, sticky, prec) ==
    LET z == LeadingZeros(bits)
        b == SubSeq(bits, z + 1, Len(bits)) \o Zeros(prec + 1)
        e == exp - z
        m == SubSeq(b, 1, prec)
        guard == b[prec + 1]
        rest == sticky \/ AnyOne(SubSeq(b, prec + 2, Len(b)))
    IN IF RoundNearestEven(m, guard, rest)
       THEN IF \A i \in 1..prec : m[i] = 1
            THEN [m |-> <<1>> \o Zeros(prec - 1), e |-> e + 1]
            ELSE [m |-> IncBits(m), e |-> e]
       ELSE [m |-> m, e |-> e]

RoundBits(bits, exp, sticky) == RoundTo(bits, exp, sticky, Precision)

\* v / 100.0 for an integer v >= 1
Div100(v) ==
    RoundBits(IntBits(v \div Hundred, 8) \o FracBits(v % Hundred, Hundred, FracLen), 7,
              FracRem(v % Hundred, Hundred, FracLen) # 0)

\* 255.0 * f: the exact product, whose last bit weighs what f's last bit weighs
Mul255(f) ==
    LET prod == LimbBits(MulLimbs(Limbs(f.m), MaxAlpha, 0))
    IN RoundBits(prod, f.e - (Precision - 1) + (Len(prod) - 1), FALSE)

\* a conversion that rounds to the nearest integer
Uint8Round(f) ==
    IF f.e < -1 THEN {0}
    ELSE IF f.e = -1 THEN {1}
    ELSE IF f.e <= 7 THEN {BitsVal(SubSeq(f.m, 1, f.e + 1)) + f.m[f.e + 2]}
    ELSE 0..MaxAlpha

\* uint8(f): the fraction is discarded; a value that does not fit uint8 converts
\* to an implementation-specific value
Uint8(f) ==
    IF f.e < 0 THEN {0}
    ELSE IF f.e <= 7 THEN {BitsVal(SubSeq(f.m, 1, f.e + 1))}
    ELSE 0..MaxAlpha

\* setop(v): the set of values the call can return
setop(v) ==
    IF v > 0
    THEN UNION {UNION {Uint8(p) : p \in {Mul255(q)}} : q \in {Div100(v)}}
    ELSE {MaxAlpha}

Opacities == (0 - OpNeg)..(Hundred + OpOver)

InitSetop ==
    /\ NavIdle /\ PageIdle /\ ListIdle /\ SlideIdle
    /\ opv \in Opacities
    /\ alpha = -1

CallSetop ==
    /\ alpha = -1
    /\ alpha' \in setop(opv)
    /\ UNCHANGED <<opv, navvars, pagevars, listvars, slidevars>>

NextSetop == CallSetop

SpecSetop == InitSetop /\ [][NextSetop]_vars

(***************************************************************************)
(* setpagesize and pagedim, lines 64-95.                                   *)
(* A string is a sequence of characters.  Lengths in points are kept in    *)
(* units of 1/PtScale pt, the resolution of mm2pt; the result of pagedim   *)
(* is a pair of float32 values, each [m, e] as above with Precision32      *)
(* significand bits, or Zero32.                                            *)
(***************************************************************************)
PtScale == 100000       \* units per point
mm2pt == 283464         \* 2.83464, in units of 1/PtScale
Precision32 == 24       \* significand bits of float32
MaxTok == 3             \* characters of an enumerated page-size string

Digits == {"0", "1", "2", "3", "4", "5", "6", "7", "8", "9"}
\* runes that unicode.IsNumber accepts and strconv.ParseFloat rejects; "sup2" is U+00B2
OtherNumbers == {"sup2"}
IsNumber(c) == c \in Digits \cup OtherNumbers
DigitVal(c) ==
    CASE c = "0" -> 0 [] c = "1" -> 1 [] c = "2" -> 2 [] c = "3" -> 3 [] c = "4" -> 4
      [] c = "5" -> 5 [] c = "6" -> 6 [] c = "7" -> 7 [] c = "8" -> 8 [] OTHER -> 9

RECURSIVE FieldsFrom(_, _, _)
\* strings.FieldsFunc(s, not IsNumber): cur is the field being read, acc the fields read
FieldsFrom(s, cur, acc) ==
    IF s = <<>> THEN (IF cur = <<>> THEN acc ELSE Append(acc, cur))
    ELSE IF IsNumber(Head(s)) THEN FieldsFrom(Tail(s), Append(cur, Head(s)), acc)
    ELSE FieldsFrom(Tail(s), <<>>, IF cur = <<>> THEN acc ELSE Append(acc, cur))

FieldsFunc(s) == FieldsFrom(s, <<>>, <<>>)

RECURSIVE DecVal(_)
DecVal(f) == IF f = <<>> THEN 0 ELSE 10 * DecVal(SubSeq(f, 1, Len(f) - 1)) + DigitVal(f[Len(f)])

\* strconv.ParseFloat on a field of FieldsFunc: a run of ASCII digits parses, any other rune is an error
ParseFloat(f) ==
    IF \A i \in 1..Len(f) : f[i] \in Digits
    THEN [err |-> FALSE, val |-> DecVal(f)]
    ELSE [err |-> TRUE, val |-> 0]

\* setpagesize(s), in points
setpagesize(s) ==
    LET d == FieldsFunc(s)
    IN IF Len(d) # 2 THEN <<0, 0>>
       ELSE IF ParseFloat(d[1]).err THEN <<0, 0>>
       ELSE IF ParseFloat(d[2]).err THEN <<0, 0>>
       ELSE <<ParseFloat(d[1]).val, ParseFloat(d[2]).val>>

Letter == <<"L", "e", "t", "t", "e", "r">>
Legal == <<"L", "e", "g", "a", "l">>
Tabloid == <<"T", "a", "b", "l", "o", "i", "d">>
ArchA == <<"A", "r", "c", "h", "A">>
Widescreen == <<"W", "i", "d", "e", "s", "c", "r", "e", "e", "n">>
FourR == <<"4", "R">>
Index == <<"I", "n", "d", "e", "x">>

\* pagemap, lines 48-60
pagemap ==
    { [name |-> Letter, width |-> 792, height |-> 612, unit |-> PtScale],
      [name |-> Legal, width |-> 1008, height |-> 612, unit |-> PtScale],
      [name |-> Tabloid, width |-> 1224, height |-> 792, unit |-> PtScale],
      [name |-> ArchA, width |-> 864, height |-> 648, unit |-> PtScale],
      [name |-> Widescreen, width |-> 1152, height |-> 648, unit |-> PtScale],
      [name |-> FourR, width |-> 432, height |-> 288, unit |-> PtScale],
      [name |-> Index, width |-> 360, height |-> 216, unit |-> PtScale],
      [name |-> <<"A", "2">>, width |-> 420, height |-> 594, unit |-> mm2pt],
      [name |-> <<"A", "3">>, width |-> 420, height |-> 297, unit |-> mm2pt],
      [name |-> <<"A", "4">>, width |-> 297, height |-> 210, unit |-> mm2pt],
      [name |-> <<"A", "5">>, width |-> 210, height |-> 148, unit |-> mm2pt] }

\* p, ok := pagemap[s]; if !ok { p = pagemap["Letter"] }
PageLookup(s) ==
    IF \E p \in pagemap : p.name = s
    THEN CHOOSE p \in pagemap : p.name = s
    ELSE CHOOSE p \in pagemap : p.name = Letter

Zero32 == [m |-> Zeros(Precision32), e |-> 0]

\* float32(x) for x = n/PtScale >= 0
float32(n) ==
    IF n = 0 THEN Zero32
    ELSE RoundTo(IntBits(n \div PtScale, 16) \o FracBits(n % PtScale, PtScale, 2 * Precision32),
                 15, FracRem(n % PtScale, PtScale, 2 * Precision32) # 0, Precision32)

\* pagedim(s)
pagedim(s) ==
    LET wh == setpagesize(s)
        p == PageLookup(s)
    IN IF wh[1] = 0 /\ wh[2] = 0
       THEN <<float32(p.width * p.unit), float32(p.height * p.unit)>>
       ELSE <<float32(wh[1] * PtScale), float32(wh[2] * PtScale)>>

TokenChars == {"0", "4", "x", "A", "sup2"}
Tokens == SeqsUpTo(TokenChars, MaxTok) \cup {p.name : p \in pagemap}
              \cup {<<"b", "o", "g", "u", "s">>, <<"6", "1", "2", "x", "7", "9", "2">>,
                    <<"6", "1", "2", ",", "7", "9", "2">>}

InitPagedim ==
    /\ NavIdle /\ OpIdle /\ ListIdle /\ SlideIdle
    /\ token \in Tokens
    /\ dim = <<>>

CallPagedim ==
    /\ dim = <<>>
    /\ dim' = pagedim(token)
    /\ UNCHANGED <<token, navvars, opvars, listvars, slidevars>>

NextPagedim == CallPagedim

SpecPagedim == InitPagedim /\ [][NextPagedim]_vars

(***************************************************************************)
(* dolist, lines 266-297: the drawing calls for a list, each with the      *)
(* item it belongs to and the color it is drawn in.                        *)
(***************************************************************************)
MaxItems == 3      \* items of a list

\* gc.ColorLookup: a color token to an RGB value, a default for an unknown token
ColorLookup(name) ==
    CASE name = "red" -> <<255, 0, 0>>
      [] name = "blue" -> <<0, 0, 255>>
      [] name = "white" -> <<255, 255, 255>>
      [] name = "gray" -> <<127, 127, 127>>
      [] OTHER -> <<0, 0, 0>>

NumberText(i, text) == <<"number", i, text>>     \* fmt.Sprintf("%d. ", i)+text

\* lines 281-291: the calls for item i of text tl.ListText in color c
ItemCalls(i, tl, lt, c) ==
    CASE lt = "number" ->
            <<[prim |-> "Text", item |-> i, color |-> c, text |-> NumberText(i, tl.ListText)]>>
      [] lt = "bullet" ->
            <<[prim |-> "Circle", item |-> i, color |-> c, text |-> <<>>],
              [prim |-> "Text", item |-> i, color |-> c, text |-> <<"plain", i, tl.ListText>>]>>
      [] OTHER ->
            <<[prim |-> "Text", item |-> i, color |-> c, text |-> <<"plain", i, tl.ListText>>]>>

\* lines 278-280: the color in force for an item, c being the color in force before it
ItemColor(tl, c) == IF tl.Color # "" THEN ColorLookup(tl.Color) ELSE c

RECURSIVE ListLoop(_, _, _, _)
\* lines 276-293: the loop from item i on, c being the loop's color variable
ListLoop(li, i, lt, c) ==
    IF i > Len(li) THEN <<>>
    ELSE ItemCalls(i, li[i], lt, ItemColor(li[i], c))
         \o ListLoop(li, i + 1, lt, ItemColor(li[i], c))

\* dolist(..., list, font, ltype, align, color, opacity)
dolist(li, lt, color) == ListLoop(li, 1, lt, ColorLookup(color))

ItemColors == {"", "red", "blue"}
ListItems == [ListText : {"a"}, Color : ItemColors]
ListTypes == {"number", "bullet", "center", ""}
ListColors == {"black", "red", "gray"}
NotDrawn == <<[prim |-> "none", item |-> 0, color |-> <<0, 0, 0>>, text |-> <<>>]>>

InitDolist ==
    /\ NavIdle /\ OpIdle /\ PageIdle /\ SlideIdle
    /\ list \in SeqsUpTo(ListItems, MaxItems)
    /\ lcolor \in ListColors
    /\ ltype \in ListTypes
    /\ drawn = NotDrawn

CallDolist ==
    /\ drawn = NotDrawn
    /\ drawn' = dolist(list, ltype, lcolor)
    /\ UNCHANGED <<list, lcolor, ltype, navvars, opvars, pagevars, slidevars>>

NextDolist == CallDolist

SpecDolist == InitDolist /\ [][NextDolist]_vars

(***************************************************************************)
(* showslide, lines 300-469: the drawing calls for one slide, each with    *)
(* the element type and the position in that type's list it belongs to.    *)
(* An element is [kind, opt]; opt tells the variants that draw differently.*)
(***************************************************************************)
MaxElems == 3      \* elements of a slide

Call(elem, idx, prim) == [elem |-> elem, idx |-> idx, prim |-> prim]

RECURSIVE Flatten(_)
Flatten(ss) == IF ss = <<>> THEN <<>> ELSE Head(ss) \o Flatten(Tail(ss))

\* lines 325-367: an image, and its caption if it has one
ImageCalls(im, i) ==
    <<Call("Image", i, "Image")>>
    \o (IF im.opt = "caption" THEN <<Call("Image", i, "TextMid")>> ELSE <<>>)

\* lines 371-382
RectCalls(r, i) == <<Call("Rect", i, "CenterRect")>>

\* lines 384-395: Hr == 100 draws a circle
EllipseCalls(e, i) ==
    <<Call("Ellipse", i, IF e.opt = "hr100" THEN "Circle" ELSE "Ellipse")>>

\* lines 397-405, 407-417, 419-427
CurveCalls(c, i) == <<Call("Curve", i, "StrokedCurve")>>
ArcCalls(a, i) == <<Call("Arc", i, "Arc")>>
LineCalls(l, i) == <<Call("Line", i, "Line")>>

\* lines 429-434 and dopoly, lines 174-202: mismatched or short coordinate lists draw nothing
PolygonCalls(pg, i) == IF pg.opt = "short" THEN <<>> ELSE <<Call("Polygon", i, "Polygon")>>

\* lines 438-454 and dotext, lines 205-231
TextCalls(t, i) ==
    (IF t.opt = "code" THEN <<Call("Text", i, "CenterRect")>> ELSE <<>>)
    \o (IF t.opt = "block" THEN <<Call("Text", i, "TextWrap")>>
        ELSE <<Call("Text", i, "Text")>>)

\* lines 456-467: dolist with the list's items
ListCalls(l, i) ==
    LET ds == dolist(<<[ListText |-> "a", Color |-> ""]>>, l.opt, "black")
    IN [k \in 1..Len(ds) |-> Call("List", i, ds[k].prim)]

Each(es, F(_, _)) == Flatten([i \in 1..Len(es) |-> F(es[i], i)])

\* a compositor that draws the lists before the text
showslideListsFirst(sl) ==
    <<Call("Slide", 0, "Background")>>
    \o Each(sl.Image, ImageCalls)
    \o Each(sl.Rect, RectCalls)
    \o Each(sl.Ellipse, EllipseCalls)
    \o Each(sl.Curve, CurveCalls)
    \o Each(sl.Arc, ArcCalls)
    \o Each(sl.Line, LineCalls)
    \o Each(sl.Polygon, PolygonCalls)
    \o Each(sl.List, ListCalls)
    \o Each(sl.Text, TextCalls)

\* showslide(doc, d, n) for slide = d.Slide[n]
showslide(sl) ==
    <<Call("Slide", 0, "Background")>>
    \o Each(sl.Image, ImageCalls)
    \o Each(sl.Rect, RectCalls)
    \o Each(sl.Ellipse, EllipseCalls)
    \o Each(sl.Curve, CurveCalls)
    \o Each(sl.Arc, ArcCalls)
    \o Each(sl.Line, LineCalls)
    \o Each(sl.Polygon, PolygonCalls)
    \o Each(sl.Text, TextCalls)
    \o Each(sl.List, ListCalls)

Elem(kind, opt) == [kind |-> kind, opt |-> opt]
Elements ==
    { Elem("Image", ""), Elem("Image", "caption"), Elem("Rect", ""),
      Elem("Ellipse", ""), Elem("Ellipse", "hr100"), Elem("Curve", ""), Elem("Arc", ""),
      Elem("Line", ""), Elem("Polygon", ""), Elem("Polygon", "short"),
      Elem("Text", ""), Elem("Text", "code"), Elem("Text", "block"),
      Elem("List", "number"), Elem("List", "bullet") }

OfKind(es, kind) == SelectSeq(es, LAMBDA e : e.kind = kind)

\* the slide the deck reader builds from the elements es of a slide's markup, in order
SlideOf(es) ==
    [Image |-> OfKind(es, "Image"), Rect |-> OfKind(es, "Rect"),
     Ellipse |-> OfKind(es, "Ellipse"), Curve |-> OfKind(es, "Curve"),
     Arc |-> OfKind(es, "Arc"), Line |-> OfKind(es, "Line"),
     Polygon |-> OfKind(es, "Polygon"), Text |-> OfKind(es, "Text"),
     List |-> OfKind(es, "List")]

NotCalled == <<Call("none", 0, "none")>>

InitShowslide ==
    /\ NavIdle /\ OpIdle /\ PageIdle /\ ListIdle
    /\ slide \in {SlideOf(es) : es \in SeqsUpTo(Elements, MaxElems)}
    /\ calls = NotCalled

CallShowslide ==
    /\ calls = NotCalled
    /\ calls' = showslide(slide)
    /\ UNCHANGED <<slide, navvars, opvars, pagevars, listvars>>

NextShowslide == CallShowslide

SpecShowslide == InitShowslide /\ [][NextShowslide]_vars

(***************************************************************************)
(* Properties                                                              *)
(***************************************************************************)
Running == pc \in {"loop", "quit", "destroyed"}
\* a step of Frame: the process was in its loop and did not end by a DestroyEvent
FrameStep == pc = "loop" /\ pc' \in {"loop", "quit", "panic"}
LastSlide == deckslides - 1

\* C1 as stated: for a deck of at least one slide, slidenumber is within
\* 0..slideCount-1 in every reachable state, also right after kbpointer has applied
\* an event and before the next frame runs.
C1_IndexInRange ==
    (Running /\ deckslides >= 1) => slidenumber \in 0..LastSlide

\* C1 as amended: for a deck of at least one slide, the index a frame draws,
\* slidenumber after the wrap at the head of the frame, is within 0..slideCount-1:
\* every slide drawn is in range, and so is the slide the next frame will draw.
\* Between kbpointer and the next frame slidenumber itself may be out of range.
C1_DrawnInRange ==
    (Running /\ deckslides >= 1) =>
        /\ WrapIndex(slidenumber, nslides) \in 0..LastSlide
        /\ rendered = NoSlide \/ rendered \in 0..LastSlide
        /\ rendered = NoSlide => (single = "none" /\ slidenumber = initpage - 1)

\* kbpointer has stepped forward from the last slide and no frame has run since
C1_Witness ==
    /\ pc = "loop" /\ deckslides >= 1
    /\ rendered = LastSlide /\ slidenumber = deckslides

\* C2: navigation is circular: after a frame that drew the last slide and drained
\* exactly one step-forward event the next frame draws slide 0; after a frame that
\* drew slide 0 and drained exactly one step-backward event the next frame draws
\* the last slide; after exactly one jump-to-last event the next frame draws the
\* last slide.
C2_Circular ==
    [][(FrameStep /\ deckslides >= 1 /\ rendered # NoSlide) =>
         /\ (single = "fwd" /\ rendered = LastSlide) => rendered' = 0
         /\ (single = "back" /\ rendered = 0) => rendered' = LastSlide
         /\ single = "last" => rendered' = LastSlide]_vars

\* a frame drew the last of several slides and then drained one step-forward event
C2_Witness ==
    /\ pc = "loop" /\ deckslides >= 2
    /\ rendered = LastSlide /\ single = "fwd" /\ slidenumber = deckslides

\* C3 as stated: the slide and the grid overlay a frame draws reflect the events
\* that same frame drained, the events being consumed before the slide is drawn.
C3_SameFrame ==
    (pc = "loop" /\ rendered # NoSlide) =>
        /\ rendered = WrapIndex(slidenumber, nslides)
        /\ (fgread # NoSlide) <=> gridstate

\* C3 as amended: a frame first wraps the index and draws the slide and the grid
\* overlay from the state the earlier frames left, and only then drains its events.
C3_RenderThenDrain ==
    [][FrameStep =>
         /\ rendered' = ShownSlide(WrapIndex(slidenumber, nslides), deckslides)
         /\ fgread' = IF gridstate THEN WrapIndex(slidenumber, nslides) ELSE NoSlide]_vars

\* a frame drew a slide and then drained a step-forward event that it did not draw
C3_Witness ==
    /\ pc = "loop" /\ rendered # NoSlide
    /\ single = "fwd" /\ slidenumber = rendered + 1

\* C6: for a deck of N >= 1 slides and --page p, the first slide drawn is p-1 when
\* 1 <= p <= N and 0 otherwise: slidedeck resets an out-of-range p to 1 and the
\* first frame draws slide initpage-1.
C6_FirstSlide ==
    [][/\ (pc = "start" /\ pc' = "loop" /\ deckslides >= 1) =>
            /\ initpage' = IF initpage >= 1 /\ initpage <= deckslides THEN initpage ELSE 1
            /\ slidenumber' = initpage' - 1
       /\ (FrameStep /\ rendered = NoSlide /\ deckslides >= 1) =>
            rendered' = initpage - 1]_vars

\* the first frame has drawn the second page, --page 2
C6_Witness ==
    /\ pc = "loop" /\ initpage = 2 /\ rendered = 1 /\ single = "none" /\ slidenumber = 1

\* C9: a frame never reads deck.Slide outside 0..len(deck.Slide)-1, neither in
\* showslide nor for the grid overlay, and so never panics, for any deck
\* including one of zero slides.
C9_ReadsInRange ==
    /\ rendered = NoSlide \/ rendered \in 0..LastSlide
    /\ fgread = NoSlide \/ fgread \in 0..LastSlide
    /\ pc # "panic"

\* C10: the slide a frame draws is the index of the reference circular navigator
\* that wraps after every single event, however the events are grouped into frames.
C10_MatchesIdeal ==
    [][(FrameStep /\ deckslides >= 1) => rendered' = ideal]_vars

\* C8: setop truncates: setop(v) = floor(255*v/100) for 1 <= v <= 100, 255 for
\* v <= 0, and the result is within 0..255.
C8_Truncates ==
    alpha # -1 =>
        /\ (opv >= 1 /\ opv <= Hundred) => alpha = (MaxAlpha * opv) \div Hundred
        /\ opv <= 0 => alpha = MaxAlpha
        /\ alpha \in 0..MaxAlpha

\* setop(50) has returned 127
C8_Witness == opv = 50 /\ alpha = 127

Positive32(f) == AnyOne(f.m)

\* C7: pagedim returns a width > 0 and a height > 0 for every page-size string.
C7_Positive ==
    dim # <<>> => Positive32(dim[1]) /\ Positive32(dim[2])

\* C4: every call dolist makes for item i is in the item's own color if it has one
\* and else in the list's color, whatever the earlier items' colors.
C4_OwnColor ==
    drawn # NotDrawn =>
        \A k \in 1..Len(drawn) :
            drawn[k].color = ColorLookup(IF list[drawn[k].item].Color # ""
                                         THEN list[drawn[k].item].Color ELSE lcolor)

Layer(elem) ==
    CASE elem = "Slide" -> 0
      [] elem = "Image" -> 1
      [] elem \in {"Rect", "Ellipse", "Curve", "Arc", "Line", "Polygon"} -> 2
      [] elem = "Text" -> 3
      [] elem = "List" -> 4

\* C5: showslide's calls are ordered by layer: the background first, then the
\* images, then the shapes, then the text, then the lists; no call of an earlier
\* layer follows a call of a later one, and the calls of one element type follow
\* the order of that type's list.
C5_LayerOrder ==
    calls # NotCalled =>
        /\ calls[1] = Call("Slide", 0, "Background")
        /\ \A i, j \in 1..Len(calls) :
              i < j =>
                 /\ Layer(calls[i].elem) <= Layer(calls[j].elem)
                 /\ calls[i].elem = calls[j].elem => calls[i].idx <= calls[j].idx
        /\ \A i \in 2..Len(calls) : calls[i].elem # "Slide"

\* a slide with an image, a text and a list has been drawn
C5_Witness ==
    /\ calls # NotCalled
    /\ Len(slide.Image) = 1 /\ Len(slide.Text) = 1 /\ Len(slide.List) = 1
    /\ \E i \in 1..Len(calls) : calls[i].elem = "List"
====
